---------------------------- MODULE Spec2Model ----------------------------
(***************************************************************************)
(* The browser-fingerprint server (main.go): fingerprintHandler extracts   *)
(* the attributes of an HTTP request, generateFingerprint serializes them  *)
(* into one string and hashes it.                                          *)
(*                                                                         *)
(* A Go string is modelled as the sequence of its bytes, each byte a       *)
(* one-character string; the empty string is <<>>.  http.Header is a       *)
(* function from canonical header names to the sequence of the values      *)
(* received under that name, in arrival order.  A Go map[string]string is  *)
(* a function whose DOMAIN is the key set; ranging over it visits the keys *)
(* in an order the runtime picks.                                          *)
(***************************************************************************)
EXTENDS Naturals, Sequences, FiniteSets, TLC

(***************************************************************************)
(* Bounds of the model.                                                    *)
(***************************************************************************)
\* The most values (header lines) a request carries under one header name.
MaxValues == 2

\* The handler invocations the server runs side by side: two, the number
\* the properties below compare.
Invocations == {1, 2}

(***************************************************************************)
(* Bytes and the string functions of the Go library the program calls.     *)
(***************************************************************************)
\* Ascii[k] is the character whose byte value is k + 31 (32 .. 126); the
\* grave accent (96), which no string of the model holds, is spelled out.
Ascii ==
  <<
    " ", "!", "\"", "#", "$", "%", "&", "'", "(", ")", "*", "+", ",", "-", ".", "/",
    "0", "1", "2", "3", "4", "5", "6", "7", "8", "9", ":", ";", "<", "=", ">", "?",
    "@", "A", "B", "C", "D", "E", "F", "G", "H", "I", "J", "K", "L", "M", "N", "O",
    "P", "Q", "R", "S", "T", "U", "V", "W", "X", "Y", "Z", "[", "\\", "]", "^", "_",
    "grave", "a", "b", "c", "d", "e", "f", "g", "h", "i", "j", "k", "l", "m", "n", "o",
    "p", "q", "r", "s", "t", "u", "v", "w", "x", "y", "z", "{", "|", "}", "~" >>

\* The byte value of a character, as a table TLC builds once.
RECURSIVE ByteTable(_)
ByteTable(k) ==
  IF k = 0 THEN <<>> ELSE (Ascii[k] :> (k + 31)) @@ ByteTable(k - 1)

ByteOf == ByteTable(Len(Ascii))

IsUpper(c) == ByteOf[c] >= 65 /\ ByteOf[c] <= 90

IsLower(c) == ByteOf[c] >= 97 /\ ByteOf[c] <= 122

ToLowerByte(c) == IF IsUpper(c) THEN Ascii[ByteOf[c] + 32 - 31] ELSE c

ToUpperByte(c) == IF IsLower(c) THEN Ascii[ByteOf[c] - 32 - 31] ELSE c

\* strings.ToLower, on ASCII.
ToLower(s) == [k \in 1..Len(s) |-> ToLowerByte(s[k])]

\* textproto.CanonicalMIMEHeaderKey, on a valid header token: the first
\* letter and every letter after a hyphen upper case, the rest lower case.
CanonicalMIMEHeaderKey(s) ==
  [k \in 1..Len(s) |->
     IF k = 1 \/ s[k - 1] = "-" THEN ToUpperByte(s[k]) ELSE ToLowerByte(s[k])]

\* The values stored under a canonical key: the last of them, "" when
\* there is none.
HeaderValueLast(h, key) ==
  IF key \in DOMAIN h /\ Len(h[key]) > 0 THEN h[key][Len(h[key])] ELSE <<>>

\* http.Header.Get once the name is canonical: the first value stored
\* under the key, "" when there is none.
HeaderValue(h, key) ==
  IF key \in DOMAIN h /\ Len(h[key]) > 0 THEN h[key][1] ELSE <<>>

\* http.Header.Get.
HeaderGet(h, name) == HeaderValue(h, CanonicalMIMEHeaderKey(name))

\* strings.Contains for a one-byte substring.
Contains(s, c) == \E k \in 1..Len(s) : s[k] = c

\* strings.IndexByte / strings.LastIndexByte, 1-based, 0 when absent.
IndexByte(s, c) ==
  IF Contains(s, c) THEN CHOOSE k \in 1..Len(s) : s[k] = c /\ \A j \in 1..(k - 1) : s[j] # c
  ELSE 0

LastIndexByte(s, c) ==
  IF Contains(s, c) THEN CHOOSE k \in 1..Len(s) : s[k] = c /\ \A j \in (k + 1)..Len(s) : s[j] # c
  ELSE 0

\* strings.Split(s, sep) for a one-byte separator: always at least one entry.
RECURSIVE Split(_, _)
Split(s, sep) ==
  LET k == IndexByte(s, sep)
  IN  IF k = 0 THEN <<s>>
      ELSE <<SubSeq(s, 1, k - 1)>> \o Split(SubSeq(s, k + 1, Len(s)), sep)

IsSpace(c) == c \in {" ", "\t", "\n", "\r"}

\* strings.TrimSpace: leading and trailing white space removed.
RECURSIVE TrimLeft(_)
TrimLeft(s) == IF s # <<>> /\ IsSpace(Head(s)) THEN TrimLeft(Tail(s)) ELSE s

RECURSIVE TrimRight(_)
TrimRight(s) ==
  IF s # <<>> /\ IsSpace(s[Len(s)]) THEN TrimRight(SubSeq(s, 1, Len(s) - 1)) ELSE s

TrimSpace(s) == TrimRight(TrimLeft(s))

\* net.SplitHostPort: host, port and whether it failed; on failure both
\* strings are empty.
AddrError == [host |-> <<>>, port |-> <<>>, err |-> TRUE]

SplitHostPort(hostport) ==
  LET i == LastIndexByte(hostport, ":")
      n == Len(hostport)
      bracketed == n > 0 /\ hostport[1] = "["
      end == IndexByte(hostport, "]")
      host == IF bracketed THEN SubSeq(hostport, 2, end - 1)
              ELSE SubSeq(hostport, 1, i - 1)
      \* the text in which no further '[' (from j) or ']' (from k) may occur
      restJ == IF bracketed THEN SubSeq(hostport, 2, n) ELSE hostport
      restK == IF bracketed THEN SubSeq(hostport, end + 1, n) ELSE hostport
  IN  IF i = 0 THEN AddrError
      ELSE IF bracketed /\ (end = 0 \/ end = n \/ end + 1 # i) THEN AddrError
      ELSE IF ~bracketed /\ Contains(host, ":") THEN AddrError
      ELSE IF Contains(restJ, "[") \/ Contains(restK, "]") THEN AddrError
      ELSE [host |-> host, port |-> SubSeq(hostport, i + 1, n), err |-> FALSE]

\* Byte-wise lexicographic order of two strings (Go's < on strings).
RECURSIVE StringLess(_, _)
StringLess(a, b) ==
  IF b = <<>> THEN FALSE
  ELSE IF a = <<>> THEN TRUE
  ELSE IF Head(a) # Head(b) THEN ByteOf[Head(a)] < ByteOf[Head(b)]
  ELSE StringLess(Tail(a), Tail(b))

\* sort.Strings: the keys in ascending byte-wise order (insertion sort).
RECURSIVE Insert(_, _)
Insert(sorted, x) ==
  IF sorted = <<>> THEN <<x>>
  ELSE IF StringLess(x, Head(sorted)) THEN <<x>> \o sorted
  ELSE <<Head(sorted)>> \o Insert(Tail(sorted), x)

RECURSIVE SortStringsFrom(_, _)
SortStringsFrom(keys, sorted) ==
  IF keys = <<>> THEN sorted ELSE SortStringsFrom(Tail(keys), Insert(sorted, Head(keys)))

SortStringsIdentity(keys) == keys

SortStrings(keys) == SortStringsFrom(keys, <<>>)

\* strings.Join(parts, sep).
RECURSIVE JoinTrailing(_, _)
JoinTrailing(parts, sep) ==
  IF parts = <<>> THEN <<>> ELSE Head(parts) \o sep \o JoinTrailing(Tail(parts), sep)

RECURSIVE Join(_, _)
Join(parts, sep) ==
  IF parts = <<>> THEN <<>>
  ELSE IF Len(parts) = 1 THEN parts[1]
  ELSE Head(parts) \o sep \o Join(Tail(parts), sep)

\* sha256 followed by hex.EncodeToString.  The digest of a string is not
\* computed: it is a value determined by the string and by nothing else,
\* distinct strings getting distinct values (the hash taken as injective).
Sha256Hex(s) == [sha256 |-> s]

\* A Go map after m[key] = value.
MapPut(m, key, value) ==
  [k \in (DOMAIN m) \cup {key} |-> IF k = key THEN value ELSE m[k]]

EmptyMap == [k \in {} |-> <<>>]

(***************************************************************************)
(* The program's constants.                                                *)
(***************************************************************************)
\* crypto/tls version numbers named by extractAdditionalSignals.
VersionTLS10 == 769
VersionTLS11 == 770
VersionTLS12 == 771
VersionTLS13 == 772

\* The header names extractHeaders looks up, in the order of its list.
fingerprintHeaders ==
  <<
     <<"U", "s", "e", "r", "-", "A", "g", "e", "n", "t">>,
     <<"A", "c", "c", "e", "p", "t">>,
     <<"A", "c", "c", "e", "p", "t", "-", "L", "a", "n", "g", "u", "a", "g", "e">>,
     <<"A", "c", "c", "e", "p", "t", "-", "E", "n", "c", "o", "d", "i", "n", "g">>,
     <<"A", "c", "c", "e", "p", "t", "-", "C", "h", "a", "r", "s", "e", "t">>,
     <<"C", "o", "n", "n", "e", "c", "t", "i", "o", "n">>,
     <<"U", "p", "g", "r", "a", "d", "e", "-", "I", "n", "s", "e", "c", "u", "r", "e", "-", "R", "e", "q", "u", "e", "s", "t", "s">>,
     <<"S", "e", "c", "-", "F", "e", "t", "c", "h", "-", "S", "i", "t", "e">>,
     <<"S", "e", "c", "-", "F", "e", "t", "c", "h", "-", "M", "o", "d", "e">>,
     <<"S", "e", "c", "-", "F", "e", "t", "c", "h", "-", "U", "s", "e", "r">>,
     <<"S", "e", "c", "-", "F", "e", "t", "c", "h", "-", "D", "e", "s", "t">>,
     <<"S", "e", "c", "-", "C", "h", "-", "U", "a">>,
     <<"S", "e", "c", "-", "C", "h", "-", "U", "a", "-", "M", "o", "b", "i", "l", "e">>,
     <<"S", "e", "c", "-", "C", "h", "-", "U", "a", "-", "P", "l", "a", "t", "f", "o", "r", "m">>,
     <<"S", "e", "c", "-", "C", "h", "-", "U", "a", "-", "P", "l", "a", "t", "f", "o", "r", "m", "-", "V", "e", "r", "s", "i", "o", "n">>,
     <<"S", "e", "c", "-", "C", "h", "-", "U", "a", "-", "A", "r", "c", "h">>,
     <<"S", "e", "c", "-", "C", "h", "-", "U", "a", "-", "M", "o", "d", "e", "l">>,
     <<"S", "e", "c", "-", "C", "h", "-", "U", "a", "-", "B", "i", "t", "n", "e", "s", "s">>,
     <<"S", "e", "c", "-", "C", "h", "-", "U", "a", "-", "F", "u", "l", "l", "-", "V", "e", "r", "s", "i", "o", "n">>,
     <<"S", "e", "c", "-", "C", "h", "-", "U", "a", "-", "F", "u", "l", "l", "-", "V", "e", "r", "s", "i", "o", "n", "-", "L", "i", "s", "t">>,
     <<"S", "e", "c", "-", "C", "h", "-", "U", "a", "-", "W", "o", "w", "6", "4">>,
     <<"S", "e", "c", "-", "C", "h", "-", "V", "i", "e", "w", "p", "o", "r", "t", "-", "W", "i", "d", "t", "h">>,
     <<"S", "e", "c", "-", "C", "h", "-", "V", "i", "e", "w", "p", "o", "r", "t", "-", "H", "e", "i", "g", "h", "t">>,
     <<"S", "e", "c", "-", "C", "h", "-", "D", "p", "r">>,
     <<"S", "e", "c", "-", "C", "h", "-", "D", "e", "v", "i", "c", "e", "-", "M", "e", "m", "o", "r", "y">>,
     <<"S", "e", "c", "-", "C", "h", "-", "P", "r", "e", "f", "e", "r", "s", "-", "C", "o", "l", "o", "r", "-", "S", "c", "h", "e", "m", "e">>,
     <<"S", "e", "c", "-", "C", "h", "-", "P", "r", "e", "f", "e", "r", "s", "-", "R", "e", "d", "u", "c", "e", "d", "-", "M", "o", "t", "i", "o", "n">>,
     <<"C", "a", "c", "h", "e", "-", "C", "o", "n", "t", "r", "o", "l">>,
     <<"P", "r", "a", "g", "m", "a">>,
     <<"D", "N", "T">>,
     <<"R", "e", "f", "e", "r", "e", "r">>,
     <<"O", "r", "i", "g", "i", "n">>,
     <<"H", "o", "s", "t">>,
     <<"A", "u", "t", "h", "o", "r", "i", "z", "a", "t", "i", "o", "n">>,
     <<"X", "-", "R", "e", "q", "u", "e", "s", "t", "e", "d", "-", "W", "i", "t", "h">>,
     <<"C", "o", "n", "t", "e", "n", "t", "-", "T", "y", "p", "e">>,
     <<"I", "f", "-", "N", "o", "n", "e", "-", "M", "a", "t", "c", "h">>,
     <<"I", "f", "-", "M", "o", "d", "i", "f", "i", "e", "d", "-", "S", "i", "n", "c", "e">>,
     <<"X", "-", "F", "o", "r", "w", "a", "r", "d", "e", "d", "-", "P", "r", "o", "t", "o">>,
     <<"X", "-", "F", "o", "r", "w", "a", "r", "d", "e", "d", "-", "P", "o", "r", "t">>,
     <<"C", "F", "-", "R", "a", "y">>,
     <<"C", "F", "-", "I", "P", "C", "o", "u", "n", "t", "r", "y">>,
     <<"C", "F", "-", "C", "o", "n", "n", "e", "c", "t", "i", "n", "g", "-", "I", "P">>,
     <<"T", "r", "u", "e", "-", "C", "l", "i", "e", "n", "t", "-", "I", "P">>,
     <<"X", "-", "C", "l", "i", "e", "n", "t", "-", "I", "P">>,
     <<"X", "-", "C", "l", "u", "s", "t", "e", "r", "-", "C", "l", "i", "e", "n", "t", "-", "I", "P">>,
     <<"F", "o", "r", "w", "a", "r", "d", "e", "d">>,
     <<"V", "i", "a">>,
     <<"X", "-", "O", "r", "i", "g", "i", "n", "a", "l", "-", "F", "o", "r", "w", "a", "r", "d", "e", "d", "-", "F", "o", "r">>,
     <<"C", "l", "o", "u", "d", "F", "r", "o", "n", "t", "-", "V", "i", "e", "w", "e", "r", "-", "C", "o", "u", "n", "t", "r", "y">>,
     <<"X", "-", "A", "m", "z", "n", "-", "T", "r", "a", "c", "e", "-", "I", "d">>,
     <<"A", "c", "c", "e", "p", "t", "-", "D", "a", "t", "e", "t", "i", "m", "e">>,
     <<"T", "E">>,
     <<"E", "x", "p", "e", "c", "t">>,
     <<"M", "a", "x", "-", "F", "o", "r", "w", "a", "r", "d", "s">>,
     <<"R", "a", "n", "g", "e">>,
     <<"W", "a", "r", "n", "i", "n", "g">>,
     <<"D", "a", "t", "e">>,
     <<"F", "r", "o", "m">>,
     <<"S", "a", "v", "e", "-", "D", "a", "t", "a">>,
     <<"V", "i", "e", "w", "p", "o", "r", "t", "-", "W", "i", "d", "t", "h">>,
     <<"W", "i", "d", "t", "h">>,
     <<"D", "P", "R">>,
     <<"D", "e", "v", "i", "c", "e", "-", "M", "e", "m", "o", "r", "y">>,
     <<"E", "C", "T">>,
     <<"R", "T", "T">>,
     <<"D", "o", "w", "n", "l", "i", "n", "k">>
  >>

\* For each listed name, the canonical key Header.Get looks up and the
\* lower-case key extractHeaders stores the value under, computed once.
RECURSIVE ListedKeys(_)
ListedKeys(k) ==
  IF k = 0 THEN <<>>
  ELSE Append(ListedKeys(k - 1),
              [canonical |-> CanonicalMIMEHeaderKey(fingerprintHeaders[k]),
               lower |-> ToLower(fingerprintHeaders[k])])

fingerprintHeaderKeys == ListedKeys(Len(fingerprintHeaders))

\* The four keys generateFingerprint leaves out of the sorted tail.
PrimaryKeys == {<<"u", "s", "e", "r", "-", "a", "g", "e", "n", "t">>, <<"a", "c", "c", "e", "p", "t">>, <<"a", "c", "c", "e", "p", "t", "-", "l", "a", "n", "g", "u", "a", "g", "e">>, <<"a", "c", "c", "e", "p", "t", "-", "e", "n", "c", "o", "d", "i", "n", "g">>}

(***************************************************************************)
(* Requests.  An http.Request as the server hands it to the handler:       *)
(* Method, Proto, Host and RemoteAddr strings, TLS either NoTLS (r.TLS is  *)
(* nil) or <<v>> for the negotiated version v, and Header keyed by         *)
(* canonical                                                               *)
(* names.  The server moves the Host header to r.Host and trims white      *)
(* space around every value, so Header has no "Host" key and no value      *)
(* starts or ends with a space.                                            *)
(***************************************************************************)
NoTLS == <<>>

\* Negotiated versions none of the four cases names (SSL 3.0).
UnmappedVersions == {768}

XForwardedFor == <<"X", "-", "F", "o", "r", "w", "a", "r", "d", "e", "d", "-", "F", "o", "r">>
XRealIP == <<"X", "-", "R", "e", "a", "l", "-", "I", "p">>
UserAgentName == <<"U", "s", "e", "r", "-", "A", "g", "e", "n", "t">>
AcceptName == <<"A", "c", "c", "e", "p", "t">>
AcceptLanguageName == <<"A", "c", "c", "e", "p", "t", "-", "L", "a", "n", "g", "u", "a", "g", "e">>
AcceptEncodingName == <<"A", "c", "c", "e", "p", "t", "-", "E", "n", "c", "o", "d", "i", "n", "g">>
ConnectionName == <<"C", "o", "n", "n", "e", "c", "t", "i", "o", "n">>
DntName == <<"D", "n", "t">>
AuthorizationName == <<"A", "u", "t", "h", "o", "r", "i", "z", "a", "t", "i", "o", "n">>
\* A header extractHeaders does not list.
CustomName == <<"X", "-", "C", "u", "s", "t", "o", "m">>

WithHeader(r, name, values) ==
  [r EXCEPT !.Header =
     IF values = <<>> THEN [k \in (DOMAIN r.Header) \ {name} |-> r.Header[k]]
     ELSE MapPut(r.Header, name, values)]

\* What a plain client sends over an unencrypted connection.
BaseRequest ==
  [Method |-> <<"G", "E", "T">>, Proto |-> <<"H", "T", "T", "P", "/", "1", ".", "1">>, Host |-> <<"h">>,
   RemoteAddr |-> <<"d", ":", "8">>, TLS |-> NoTLS,
   Header |-> [k \in {UserAgentName, ConnectionName} |->
                 IF k = UserAgentName THEN <<<<"x">>>> ELSE <<<<"k", "e", "e", "p", "-", "a", "l", "i", "v", "e">>>>]]

\* All the ways to send 1 .. MaxValues header lines with the given values.
ValueLists(values) ==
  UNION {[1..n -> values] : n \in 1..MaxValues}

\* The values each attribute takes in the model; <<>> is "header not sent".
XffValues == {<<>>, <<<<"a">>>>, <<<<"a", " ", ",", "b">>>>, <<<<"b">>>>, <<<<",", "a">>>>}
XriValues == {<<>>, <<<<"c">>>>}
RemoteAddrs == {<<"d", ":", "8">>, <<"e", ":", "8">>}
\* Hosts other than the base one: with a port, with a trailing colon, and
\* bracketed IPv6 literals without and with a port.
HostValues == {<<"h", ":", "8">>, <<"h", ":">>, <<"[", ":", ":", "1", "]">>, <<"[", ":", ":", "1", "]", ":", "8">>}

HeaderChoices ==
  [name \in {UserAgentName, AcceptName, AcceptLanguageName, AcceptEncodingName,
             ConnectionName, DntName, AuthorizationName, CustomName} |->
     IF name = UserAgentName THEN {<<>>, <<<<"y">>>>}
     ELSE IF name = AcceptName THEN {<<<<"z">>>>}
     ELSE IF name = AcceptLanguageName THEN {<<<<"e", "n">>>>}
     ELSE IF name = AcceptEncodingName THEN {<<<<"g", "z">>>>}
     ELSE IF name = ConnectionName
       THEN {<<>>, <<<<"k", "e", "e", "p", "-", "a", "l", "i", "v", "e", "|", "d", "n", "t", ":", "1">>>>} \cup ValueLists({<<"k", "e", "e", "p", "-", "a", "l", "i", "v", "e">>, <<"c", "l", "o", "s", "e">>})
     ELSE IF name = DntName THEN {<<<<"1">>>>, <<<<"0">>>>}
     ELSE IF name = AuthorizationName THEN {<<<<"t">>>>}
     ELSE {<<<<"q">>>>, <<<<"r">>>>}]

\* The base request with one attribute varied.
OneAttributeVaried ==
  {[BaseRequest EXCEPT !.Method = <<"P", "O", "S", "T">>],
   [BaseRequest EXCEPT !.Proto = <<"H", "T", "T", "P", "/", "1", ".", "0">>]}
  \cup {[BaseRequest EXCEPT !.Host = host] : host \in HostValues}
  \cup {[BaseRequest EXCEPT !.TLS = <<v>>] :
          v \in UnmappedVersions \cup {VersionTLS10, VersionTLS11, VersionTLS12, VersionTLS13}}
  \cup UNION {{WithHeader(BaseRequest, name, values) : values \in HeaderChoices[name]} :
                name \in DOMAIN HeaderChoices}

\* The base request behind every combination of proxy headers and peers.
AddressVaried ==
  {[WithHeader(WithHeader(BaseRequest, XForwardedFor, xff), XRealIP, xri)
      EXCEPT !.RemoteAddr = addr] :
     xff \in XffValues, xri \in XriValues, addr \in RemoteAddrs}

\* An HTTP/1.0 request that sends no header line at all, not even Host.
BareRequest ==
  [Method |-> <<"G", "E", "T">>, Proto |-> <<"H", "T", "T", "P", "/", "1", ".", "0">>, Host |-> <<>>,
   RemoteAddr |-> <<"d", ":", "8">>, TLS |-> NoTLS, Header |-> EmptyMap]

Requests == {BaseRequest, BareRequest} \cup OneAttributeVaried \cup AddressVaried

(***************************************************************************)
(* The extractors.                                                         *)
(***************************************************************************)
extractIPAddressNoForwarded(r) ==
  LET xri == HeaderGet(r.Header, <<"X", "-", "R", "e", "a", "l", "-", "I", "P">>)
      split == SplitHostPort(r.RemoteAddr)
  IN  IF xri # <<>> THEN TrimSpace(xri)
      ELSE IF split.err THEN r.RemoteAddr
      ELSE split.host

extractIPAddress(r) ==
  LET xff == HeaderGet(r.Header, <<"X", "-", "F", "o", "r", "w", "a", "r", "d", "e", "d", "-", "F", "o", "r">>)
      ips == Split(xff, ",")
      xri == HeaderGet(r.Header, <<"X", "-", "R", "e", "a", "l", "-", "I", "P">>)
      split == SplitHostPort(r.RemoteAddr)
  IN  IF xff # <<>> /\ Len(ips) > 0 THEN TrimSpace(ips[1])
      ELSE IF xri # <<>> THEN TrimSpace(xri)
      ELSE IF split.err THEN r.RemoteAddr
      ELSE split.host

\* The loop of extractHeaders from the k-th listed name on.
RECURSIVE extractHeadersFrom(_, _, _)
extractHeadersFrom(r, k, headers) ==
  IF k > Len(fingerprintHeaders) THEN headers
  ELSE LET value == HeaderValue(r.Header, fingerprintHeaderKeys[k].canonical)
       IN  extractHeadersFrom(r, k + 1,
             IF value # <<>> THEN MapPut(headers, fingerprintHeaderKeys[k].lower, value)
             ELSE headers)

\* Every header of the request, listed or not.
extractHeadersAll(r) ==
  [key \in {ToLower(name) : name \in DOMAIN r.Header} |->
     LET name == CHOOSE n \in DOMAIN r.Header : ToLower(n) = key
     IN  r.Header[name][1]]

extractHeaders(r) == extractHeadersFrom(r, 1, EmptyMap)

\* The switch without its default case.
tlsVersionOfMappedOnly(r) ==
  IF r.TLS = NoTLS THEN <<>>
  ELSE IF r.TLS[1] = VersionTLS10 THEN <<"T", "L", "S", "1", ".", "0">>
  ELSE IF r.TLS[1] = VersionTLS11 THEN <<"T", "L", "S", "1", ".", "1">>
  ELSE IF r.TLS[1] = VersionTLS12 THEN <<"T", "L", "S", "1", ".", "2">>
  ELSE IF r.TLS[1] = VersionTLS13 THEN <<"T", "L", "S", "1", ".", "3">>
  ELSE <<>>

tlsVersionOf(r) ==
  IF r.TLS = NoTLS THEN <<>>
  ELSE IF r.TLS[1] = VersionTLS10 THEN <<"T", "L", "S", "1", ".", "0">>
  ELSE IF r.TLS[1] = VersionTLS11 THEN <<"T", "L", "S", "1", ".", "1">>
  ELSE IF r.TLS[1] = VersionTLS12 THEN <<"T", "L", "S", "1", ".", "2">>
  ELSE IF r.TLS[1] = VersionTLS13 THEN <<"T", "L", "S", "1", ".", "3">>
  ELSE <<"u", "n", "k", "n", "o", "w", "n">>

\* The port cut at the first colon of the host instead of parsed.
extractAdditionalSignalsFirstColon(r) ==
  [method |-> r.Method,
   protocol |-> r.Proto,
   tlsVersion |-> tlsVersionOf(r),
   port |-> IF Contains(r.Host, ":")
              THEN SubSeq(r.Host, IndexByte(r.Host, ":") + 1, Len(r.Host))
              ELSE <<>>]

extractAdditionalSignals(r) ==
  [method |-> r.Method,
   protocol |-> r.Proto,
   tlsVersion |-> tlsVersionOf(r),
   port |-> IF Contains(r.Host, ":") THEN SplitHostPort(r.Host).port ELSE <<>>]

\* The FingerprintData value fingerprintHandler builds.
FingerprintDataOf(r) ==
  LET signals == extractAdditionalSignals(r)
  IN  [IPAddress |-> extractIPAddress(r),
       UserAgent |-> HeaderGet(r.Header, <<"U", "s", "e", "r", "-", "A", "g", "e", "n", "t">>),
       AcceptLang |-> HeaderGet(r.Header, <<"A", "c", "c", "e", "p", "t", "-", "L", "a", "n", "g", "u", "a", "g", "e">>),
       AcceptEnc |-> HeaderGet(r.Header, <<"A", "c", "c", "e", "p", "t", "-", "E", "n", "c", "o", "d", "i", "n", "g">>),
       Accept |-> HeaderGet(r.Header, <<"A", "c", "c", "e", "p", "t">>),
       Headers |-> extractHeaders(r),
       RemoteAddr |-> r.RemoteAddr,
       XForwardedFor |-> HeaderGet(r.Header, <<"X", "-", "F", "o", "r", "w", "a", "r", "d", "e", "d", "-", "F", "o", "r">>),
       XRealIP |-> HeaderGet(r.Header, <<"X", "-", "R", "e", "a", "l", "-", "I", "P">>),
       Method |-> signals.method,
       Protocol |-> signals.protocol,
       TLSVersion |-> signals.tlsVersion,
       Port |-> signals.port]

(***************************************************************************)
(* generateFingerprint.                                                    *)
(***************************************************************************)
\* The parts appended before the loop over data.Headers, with a tls part
\* even when TLSVersion is empty.
FixedPartsTlsAlways(data) ==
  <<<<"i", "p", ":">> \o data.IPAddress,
    <<"m", "e", "t", "h", "o", "d", ":">> \o data.Method,
    <<"p", "r", "o", "t", "o", "c", "o", "l", ":">> \o data.Protocol,
    <<"t", "l", "s", ":">> \o data.TLSVersion>>
  \o (IF data.Port # <<>> THEN <<<<"p", "o", "r", "t", ":">> \o data.Port>> ELSE <<>>)
  \o <<<<"u", "a", ":">> \o data.UserAgent,
       <<"a", "c", "c", "e", "p", "t", ":">> \o data.Accept,
       <<"a", "c", "c", "e", "p", "t", "-", "l", "a", "n", "g", ":">> \o data.AcceptLang,
       <<"a", "c", "c", "e", "p", "t", "-", "e", "n", "c", ":">> \o data.AcceptEnc>>

\* The same with the user agent left out.
FixedPartsNoUserAgent(data) ==
  <<<<"i", "p", ":">> \o data.IPAddress,
    <<"m", "e", "t", "h", "o", "d", ":">> \o data.Method,
    <<"p", "r", "o", "t", "o", "c", "o", "l", ":">> \o data.Protocol>>
  \o (IF data.TLSVersion # <<>> THEN <<<<"t", "l", "s", ":">> \o data.TLSVersion>> ELSE <<>>)
  \o (IF data.Port # <<>> THEN <<<<"p", "o", "r", "t", ":">> \o data.Port>> ELSE <<>>)
  \o <<<<"u", "a", ":">>,
       <<"a", "c", "c", "e", "p", "t", ":">> \o data.Accept,
       <<"a", "c", "c", "e", "p", "t", "-", "l", "a", "n", "g", ":">> \o data.AcceptLang,
       <<"a", "c", "c", "e", "p", "t", "-", "e", "n", "c", ":">> \o data.AcceptEnc>>

\* The ip part taken from the RemoteAddr field.
FixedPartsPeerAddress(data) ==
  <<<<"i", "p", ":">> \o data.RemoteAddr,
    <<"m", "e", "t", "h", "o", "d", ":">> \o data.Method,
    <<"p", "r", "o", "t", "o", "c", "o", "l", ":">> \o data.Protocol>>
  \o (IF data.TLSVersion # <<>> THEN <<<<"t", "l", "s", ":">> \o data.TLSVersion>> ELSE <<>>)
  \o (IF data.Port # <<>> THEN <<<<"p", "o", "r", "t", ":">> \o data.Port>> ELSE <<>>)
  \o <<<<"u", "a", ":">> \o data.UserAgent,
       <<"a", "c", "c", "e", "p", "t", ":">> \o data.Accept,
       <<"a", "c", "c", "e", "p", "t", "-", "l", "a", "n", "g", ":">> \o data.AcceptLang,
       <<"a", "c", "c", "e", "p", "t", "-", "e", "n", "c", ":">> \o data.AcceptEnc>>

\* The parts appended before the loop over data.Headers.
FixedParts(data) ==
  <<<<"i", "p", ":">> \o data.IPAddress,
    <<"m", "e", "t", "h", "o", "d", ":">> \o data.Method,
    <<"p", "r", "o", "t", "o", "c", "o", "l", ":">> \o data.Protocol>>
  \o (IF data.TLSVersion # <<>> THEN <<<<"t", "l", "s", ":">> \o data.TLSVersion>> ELSE <<>>)
  \o (IF data.Port # <<>> THEN <<<<"p", "o", "r", "t", ":">> \o data.Port>> ELSE <<>>)
  \o <<<<"u", "a", ":">> \o data.UserAgent,
       <<"a", "c", "c", "e", "p", "t", ":">> \o data.Accept,
       <<"a", "c", "c", "e", "p", "t", "-", "l", "a", "n", "g", ":">> \o data.AcceptLang,
       <<"a", "c", "c", "e", "p", "t", "-", "e", "n", "c", ":">> \o data.AcceptEnc>>

\* The orders in which a range over a map with these keys may visit them.
RECURSIVE RangeOrders(_)
RangeOrders(keys) ==
  IF keys = {} THEN {<<>>}
  ELSE UNION {{<<key>> \o rest : rest \in RangeOrders(keys \ {key})} : key \in keys}

\* The loop over data.Headers without its test on the key.
CollectHeaderKeysUnfiltered(order) == order

\* headerKeys after the loop over data.Headers that visits the keys in
\* this order.
CollectHeaderKeys(order) ==
  SelectSeq(order, LAMBDA key : key \notin PrimaryKeys)

\* Every value headerKeys may have after the loop over these headers.
CollectedHeaderKeys(headers) ==
  {CollectHeaderKeys(order) : order \in RangeOrders(DOMAIN headers)}

\* The parts the second loop appends, one per key of headerKeys.
HeaderParts(data, keys) ==
  [k \in 1..Len(keys) |-> keys[k] \o <<":">> \o data.Headers[keys[k]]]

(***************************************************************************)
(* The server: each invocation of fingerprintHandler works on its own      *)
(* request and its own locals.                                             *)
(***************************************************************************)
VARIABLES
  pc,           \* where each invocation stands
  r,            \* its request
  data,         \* the FingerprintData it built
  rangeOrder,   \* headerKeys as the loop over data.Headers left it
  headerKeys,   \* generateFingerprint's headerKeys
  parts,        \* generateFingerprint's parts
  fingerprint,  \* the joined string generateFingerprint hashes
  hash,         \* the digest generateFingerprint returns
  response      \* what the handler wrote to the client

vars == <<pc, r, data, rangeOrder, headerKeys, parts, fingerprint, hash, response>>

None == "none"

Init ==
  /\ pc = [i \in Invocations |-> "idle"]
  /\ r = [i \in Invocations |-> None]
  /\ data = [i \in Invocations |-> None]
  /\ rangeOrder = [i \in Invocations |-> <<>>]
  /\ headerKeys = [i \in Invocations |-> <<>>]
  /\ parts = [i \in Invocations |-> <<>>]
  /\ fingerprint = [i \in Invocations |-> <<>>]
  /\ hash = [i \in Invocations |-> None]
  /\ response = [i \in Invocations |-> None]

\* The server hands a request to a new invocation of fingerprintHandler.
Receive(i) ==
  /\ pc[i] = "idle"
  /\ \E request \in Requests : r' = [r EXCEPT ![i] = request]
  /\ pc' = [pc EXCEPT ![i] = "received"]
  /\ UNCHANGED <<data, rangeOrder, headerKeys, parts, fingerprint, hash, response>>

\* fingerprintHandler up to the call of generateFingerprint.
Extract(i) ==
  /\ pc[i] = "received"
  /\ data' = [data EXCEPT ![i] = FingerprintDataOf(r[i])]
  /\ pc' = [pc EXCEPT ![i] = "extracted"]
  /\ UNCHANGED <<r, rangeOrder, headerKeys, parts, fingerprint, hash, response>>

\* Collect with headerKeys as one slice shared by every invocation.
CollectShared(i) ==
  /\ pc[i] = "extracted"
  /\ \E keys \in CollectedHeaderKeys(data[i].Headers) :
       /\ rangeOrder' = [rangeOrder EXCEPT ![i] = keys]
       /\ headerKeys' = [j \in Invocations |-> keys]
  /\ parts' = [parts EXCEPT ![i] = FixedParts(data[i])]
  /\ pc' = [pc EXCEPT ![i] = "collected"]
  /\ UNCHANGED <<r, data, fingerprint, hash, response>>

\* generateFingerprint up to the end of its loop over data.Headers, which
\* visits the keys in an order of the runtime's choosing.
Collect(i) ==
  /\ pc[i] = "extracted"
  /\ \E keys \in CollectedHeaderKeys(data[i].Headers) :
       /\ rangeOrder' = [rangeOrder EXCEPT ![i] = keys]
       /\ headerKeys' = [headerKeys EXCEPT ![i] = keys]
  /\ parts' = [parts EXCEPT ![i] = FixedParts(data[i])]
  /\ pc' = [pc EXCEPT ![i] = "collected"]
  /\ UNCHANGED <<r, data, fingerprint, hash, response>>

\* Serialize refusing a FingerprintData without extra headers.
SerializeNonEmpty(i) ==
  /\ pc[i] = "collected"
  /\ headerKeys[i] # <<>>
  /\ LET sorted == SortStrings(headerKeys[i])
         all == parts[i] \o HeaderParts(data[i], sorted)
     IN  /\ headerKeys' = [headerKeys EXCEPT ![i] = sorted]
         /\ parts' = [parts EXCEPT ![i] = all]
         /\ fingerprint' = [fingerprint EXCEPT ![i] = Join(all, <<"|">>)]
  /\ pc' = [pc EXCEPT ![i] = "serialized"]
  /\ UNCHANGED <<r, data, rangeOrder, hash, response>>

\* generateFingerprint from sort.Strings to strings.Join.
Serialize(i) ==
  /\ pc[i] = "collected"
  /\ LET sorted == SortStrings(headerKeys[i])
         all == parts[i] \o HeaderParts(data[i], sorted)
     IN  /\ headerKeys' = [headerKeys EXCEPT ![i] = sorted]
         /\ parts' = [parts EXCEPT ![i] = all]
         /\ fingerprint' = [fingerprint EXCEPT ![i] = Join(all, <<"|">>)]
  /\ pc' = [pc EXCEPT ![i] = "serialized"]
  /\ UNCHANGED <<r, data, rangeOrder, hash, response>>

\* The hash, the return to fingerprintHandler and its reply to the client.
Hash(i) ==
  /\ pc[i] = "serialized"
  /\ hash' = [hash EXCEPT ![i] = Sha256Hex(fingerprint[i])]
  /\ response' = [response EXCEPT ![i] =
                    [status |-> 200, fingerprint |-> Sha256Hex(fingerprint[i])]]
  /\ pc' = [pc EXCEPT ![i] = "done"]
  /\ UNCHANGED <<r, data, rangeOrder, headerKeys, parts, fingerprint>>

\* The exchange is over; the invocation's storage is free for the next.
Close(i) ==
  /\ pc[i] = "done"
  /\ pc' = [pc EXCEPT ![i] = "idle"]
  /\ r' = [r EXCEPT ![i] = None]
  /\ data' = [data EXCEPT ![i] = None]
  /\ rangeOrder' = [rangeOrder EXCEPT ![i] = <<>>]
  /\ headerKeys' = [headerKeys EXCEPT ![i] = <<>>]
  /\ parts' = [parts EXCEPT ![i] = <<>>]
  /\ fingerprint' = [fingerprint EXCEPT ![i] = <<>>]
  /\ hash' = [hash EXCEPT ![i] = None]
  /\ response' = [response EXCEPT ![i] = None]

Next ==
  \E i \in Invocations :
    \/ Receive(i)
    \/ Extract(i)
    \/ Collect(i)
    \/ Serialize(i)
    \/ Hash(i)
    \/ Close(i)

Spec == Init /\ [][Next]_vars

(***************************************************************************)
(* generateFingerprint called on FingerprintData values of any content,    *)
(* not only on those fingerprintHandler builds from a request.             *)
(***************************************************************************)
\* The strings of the direct inputs: empty, and one made of the separators.
DirectStrings == {<<>>, <<"|", ":">>}

\* Their Headers: no entry (a nil map and an empty map range alike), an
\* empty key with an empty value, separators in keys and values, and a
\* primary key.
DirectHeaders ==
  {EmptyMap,
   [k \in {<<>>} |-> <<>>],
   [k \in {<<"a", "|", "b">>, <<"d", "n", "t">>} |-> IF k = <<"d", "n", "t">> THEN <<"|">> ELSE <<"c", ":", "d", "|", "e">>],
   [k \in {<<"u", "s", "e", "r", "-", "a", "g", "e", "n", "t">>} |-> <<>>]}

DirectInputs ==
  {[IPAddress |-> s, UserAgent |-> s, AcceptLang |-> s, AcceptEnc |-> s,
    Accept |-> s, Headers |-> h, RemoteAddr |-> s, XForwardedFor |-> s,
    XRealIP |-> s, Method |-> s, Protocol |-> s, TLSVersion |-> t, Port |-> t] :
     s \in DirectStrings, t \in DirectStrings, h \in DirectHeaders}

\* Every invocation starts in generateFingerprint with a direct input;
\* once it is over its storage serves the requests of the server.
InitDirect ==
  /\ pc = [i \in Invocations |-> "extracted"]
  /\ r = [i \in Invocations |-> None]
  /\ data \in [Invocations -> DirectInputs]
  /\ rangeOrder = [i \in Invocations |-> <<>>]
  /\ headerKeys = [i \in Invocations |-> <<>>]
  /\ parts = [i \in Invocations |-> <<>>]
  /\ fingerprint = [i \in Invocations |-> <<>>]
  /\ hash = [i \in Invocations |-> None]
  /\ response = [i \in Invocations |-> None]

SpecDirect == InitDirect /\ [][Next]_vars
(***************************************************************************)
(* Vocabulary of the properties.                                           *)
(***************************************************************************)
\* generateFingerprint has built the string of invocation i.
Serialized(i) == pc[i] \in {"serialized", "done"}

\* fingerprintHandler has built the FingerprintData of invocation i.
Extracted(i) == pc[i] \in {"extracted", "collected", "serialized", "done"}

Done(i) == pc[i] = "done"

ScalarFields ==
  {"IPAddress", "Method", "Protocol", "TLSVersion", "Port",
   "UserAgent", "Accept", "AcceptLang", "AcceptEnc"}

\* The keys of Headers that reach the sorted tail.
ExtraKeys(d) == (DOMAIN d.Headers) \ PrimaryKeys

\* The entry of Headers under a key: <<value>>, or <<>> when there is none.
EntryOf(d, key) == IF key \in ExtraKeys(d) THEN <<d.Headers[key]>> ELSE <<>>

\* In how many fingerprinted attributes two FingerprintData values differ:
\* the nine scalar fields and, key by key, the extra-header entries.
DifferingAttributes(d1, d2) ==
  Cardinality({f \in ScalarFields : d1[f] # d2[f]})
  + Cardinality({key \in ExtraKeys(d1) \cup ExtraKeys(d2) :
                   EntryOf(d1, key) # EntryOf(d2, key)})

HasSuffix(s, suffix) ==
  /\ Len(suffix) <= Len(s)
  /\ SubSeq(s, Len(s) - Len(suffix) + 1, Len(s)) = suffix

\* The parts of invocation i that come from Headers.
HeaderTail(i) ==
  SubSeq(parts[i], Len(parts[i]) - Len(headerKeys[i]) + 1, Len(parts[i]))

\* The values a request carries under a header name, <<>> when it has none.
HeaderValues(q, name) == IF name \in DOMAIN q.Header THEN q.Header[name] ELSE <<>>

\* The canonical names of the headers extractHeaders lists.
AllowList == {fingerprintHeaderKeys[k].canonical : k \in 1..Len(fingerprintHeaderKeys)}

\* Two requests that agree on everything but the headers named.
SameExceptHeaders(q1, q2, names) ==
  /\ q1.Method = q2.Method
  /\ q1.Proto = q2.Proto
  /\ q1.Host = q2.Host
  /\ q1.RemoteAddr = q2.RemoteAddr
  /\ q1.TLS = q2.TLS
  /\ \A name \in ((DOMAIN q1.Header) \cup (DOMAIN q2.Header)) \ names :
       HeaderValues(q1, name) = HeaderValues(q2, name)

\* The header names of two requests that are not on the allow-list.
Unlisted(q1, q2) == ((DOMAIN q1.Header) \cup (DOMAIN q2.Header)) \ AllowList

(***************************************************************************)
(* C1.  The string generateFingerprint hashes, written out as the claim    *)
(* gives it: the fixed parts in their order, tls and port only when not    *)
(* empty, then one name:value part per non-primary key in ascending        *)
(* byte-wise order, a single "|" between consecutive parts.                *)
(***************************************************************************)
\* The keys in ascending order: the one strictly increasing arrangement.
Ascending(keys) ==
  CHOOSE s \in [1..Cardinality(keys) -> keys] :
    \A k \in 1..(Cardinality(keys) - 1) : StringLess(s[k], s[k + 1])

RECURSIVE ClaimedTail(_, _)
ClaimedTail(d, keys) ==
  IF keys = <<>> THEN <<>>
  ELSE <<"|">> \o Head(keys) \o <<":">> \o d.Headers[Head(keys)] \o ClaimedTail(d, Tail(keys))

ClaimedString(d) ==
  <<"i", "p", ":">> \o d.IPAddress
  \o <<"|", "m", "e", "t", "h", "o", "d", ":">> \o d.Method
  \o <<"|", "p", "r", "o", "t", "o", "c", "o", "l", ":">> \o d.Protocol
  \o (IF d.TLSVersion # <<>> THEN <<"|", "t", "l", "s", ":">> \o d.TLSVersion ELSE <<>>)
  \o (IF d.Port # <<>> THEN <<"|", "p", "o", "r", "t", ":">> \o d.Port ELSE <<>>)
  \o <<"|", "u", "a", ":">> \o d.UserAgent
  \o <<"|", "a", "c", "c", "e", "p", "t", ":">> \o d.Accept
  \o <<"|", "a", "c", "c", "e", "p", "t", "-", "l", "a", "n", "g", ":">> \o d.AcceptLang
  \o <<"|", "a", "c", "c", "e", "p", "t", "-", "e", "n", "c", ":">> \o d.AcceptEnc
  \o ClaimedTail(d, Ascending(ExtraKeys(d)))

\* C1: in every state, the string an invocation has serialized is exactly
\* the claimed string of its FingerprintData.
C1_SerializedString ==
  \A i \in Invocations : Serialized(i) => fingerprint[i] = ClaimedString(data[i])

\* The claim's example: extra headers {dnt: 1, connection: keep-alive},
\* visited dnt first, end the string with |connection:keep-alive|dnt:1.
C1_Witness ==
  \E i \in Invocations :
    /\ Serialized(i)
    /\ rangeOrder[i] = <<<<"d", "n", "t">>, <<"c", "o", "n", "n", "e", "c", "t", "i", "o", "n">>>>
    /\ HasSuffix(fingerprint[i], <<"|", "a", "c", "c", "e", "p", "t", "-", "e", "n", "c", ":", "|", "c", "o", "n", "n", "e", "c", "t", "i", "o", "n", ":", "k", "e", "e", "p", "-", "a", "l", "i", "v", "e", "|", "d", "n", "t", ":", "1">>)

(***************************************************************************)
(* C2.  Determinism.                                                       *)
(***************************************************************************)
\* C2: whenever two finished invocations worked on equal FingerprintData
\* they returned the same digest, and on equal requests the handler sent
\* the same fingerprint, whatever order the map iteration took in each.
C2_Determinism ==
  \A i, j \in Invocations :
    (Done(i) /\ Done(j)) =>
      /\ (data[i] = data[j] => hash[i] = hash[j])
      /\ (r[i] = r[j] => response[i] = response[j])

\* Two finished invocations of one request whose loops over Headers took
\* different orders.
C2_Witness ==
  /\ Done(1) /\ Done(2)
  /\ r[1] = r[2]
  /\ rangeOrder[1] # rangeOrder[2]
  /\ response[1] = response[2]

(***************************************************************************)
(* C3.  Uniqueness.                                                        *)
(***************************************************************************)
\* C3: two invocations whose FingerprintData differ in at least one
\* fingerprinted attribute serialize to different strings (and so, the hash
\* being injective, get different digests).
C3_Uniqueness ==
  \A i, j \in Invocations :
    (Serialized(i) /\ Serialized(j) /\ DifferingAttributes(data[i], data[j]) >= 1)
      => fingerprint[i] # fingerprint[j]

(***************************************************************************)
(* C4.  Sensitivity.                                                       *)
(***************************************************************************)
\* C4: two invocations whose FingerprintData differ in exactly one
\* fingerprinted attribute (one scalar field, or the entry of one extra
\* header) serialize to different strings and return different digests.
C4_Sensitivity ==
  \A i, j \in Invocations :
    (Serialized(i) /\ Serialized(j) /\ DifferingAttributes(data[i], data[j]) = 1)
      => /\ fingerprint[i] # fingerprint[j]
         /\ (Done(i) /\ Done(j)) => hash[i] # hash[j]

\* Two finished invocations that differ in the user agent alone.
C4_Witness ==
  /\ Done(1) /\ Done(2)
  /\ DifferingAttributes(data[1], data[2]) = 1
  /\ data[1].UserAgent # data[2].UserAgent
  /\ hash[1] # hash[2]

(***************************************************************************)
(* C5.  Header-order independence.                                         *)
(***************************************************************************)
\* C5: the parts that come from Headers depend only on the set of its
\* non-primary entries, and two invocations with equal FingerprintData
\* serialize to the same string, in whatever orders their loops over
\* Headers visited the keys.
C5_OrderIndependence ==
  \A i, j \in Invocations :
    (Serialized(i) /\ Serialized(j)) =>
      /\ (\A key \in ExtraKeys(data[i]) \cup ExtraKeys(data[j]) :
            EntryOf(data[i], key) = EntryOf(data[j], key))
           => HeaderTail(i) = HeaderTail(j)
      /\ data[i] = data[j] => fingerprint[i] = fingerprint[j]

\* Two invocations with the same entries, visited in different orders, and
\* the same string.
C5_Witness ==
  /\ Serialized(1) /\ Serialized(2)
  /\ data[1] = data[2]
  /\ Len(rangeOrder[1]) >= 2
  /\ rangeOrder[1] # rangeOrder[2]
  /\ fingerprint[1] = fingerprint[2]

(***************************************************************************)
(* C6.  Allow-list enforcement.                                            *)
(***************************************************************************)
\* C6 as claimed: two invocations whose requests agree on everything but
\* headers that are not on the allow-list build the same parts and the
\* same string.
C6_UnlistedNeverConsulted ==
  \A i, j \in Invocations :
    (Serialized(i) /\ Serialized(j)
       /\ SameExceptHeaders(r[i], r[j], Unlisted(r[i], r[j])))
      => /\ parts[i] = parts[j]
         /\ fingerprint[i] = fingerprint[j]

\* C6 as amended: two invocations whose requests agree on everything but
\* headers that are neither on the allow-list nor X-Forwarded-For nor
\* X-Real-IP build the same FingerprintData, the same parts, the same
\* string and the same digest.
C6_AllowList ==
  \A i, j \in Invocations :
    (Serialized(i) /\ Serialized(j)
       /\ SameExceptHeaders(r[i], r[j], Unlisted(r[i], r[j]) \ {XForwardedFor, XRealIP}))
      => /\ data[i] = data[j]
         /\ parts[i] = parts[j]
         /\ fingerprint[i] = fingerprint[j]
         /\ (Done(i) /\ Done(j)) => hash[i] = hash[j]

\* Two finished invocations, one request with the unlisted X-Custom header
\* and one without it (or with another value), and the same digest.
C6_Witness ==
  /\ Done(1) /\ Done(2)
  /\ HeaderValues(r[1], CustomName) # <<>>
  /\ HeaderValues(r[1], CustomName) # HeaderValues(r[2], CustomName)
  /\ SameExceptHeaders(r[1], r[2], {CustomName})
  /\ hash[1] = hash[2]

(***************************************************************************)
(* C7.  Omission versus empty string.                                      *)
(***************************************************************************)
Count(present) == IF present THEN 1 ELSE 0

HasPrefix(s, prefix) == Len(prefix) <= Len(s) /\ SubSeq(s, 1, Len(prefix)) = prefix

\* C7: the serialized parts number 7, plus one for a non-empty TLSVersion,
\* plus one for a non-empty Port, plus one per non-primary key of Headers;
\* each primary header has its part even when its value is empty, and an
\* empty TLSVersion or Port leaves no tls: or port: part behind.
C7_PartCount ==
  \A i \in Invocations :
    Serialized(i) =>
      LET d == data[i]
          n == Len(parts[i])
          extra == Cardinality(ExtraKeys(d))
      IN  /\ n = 7 + Count(d.TLSVersion # <<>>) + Count(d.Port # <<>>) + extra
          /\ parts[i][n - extra - 3] = <<"u", "a", ":">> \o d.UserAgent
          /\ parts[i][n - extra - 2] = <<"a", "c", "c", "e", "p", "t", ":">> \o d.Accept
          /\ parts[i][n - extra - 1] = <<"a", "c", "c", "e", "p", "t", "-", "l", "a", "n", "g", ":">> \o d.AcceptLang
          /\ parts[i][n - extra] = <<"a", "c", "c", "e", "p", "t", "-", "e", "n", "c", ":">> \o d.AcceptEnc
          /\ d.TLSVersion = <<>> => \A k \in 1..n : ~HasPrefix(parts[i][k], <<"t", "l", "s", ":">>)
          /\ d.Port = <<>> => \A k \in 1..n : ~HasPrefix(parts[i][k], <<"p", "o", "r", "t", ":">>)

\* One invocation without TLS and with an empty Accept, which still has its
\* accept: part, beside one that differs by its TLS version alone and has
\* one part more.
C7_Witness ==
  /\ Serialized(1) /\ Serialized(2)
  /\ data[1].TLSVersion = <<>> /\ data[1].Accept = <<>>
  /\ data[2].TLSVersion # <<>>
  /\ DifferingAttributes(data[1], data[2]) = 1
  /\ \E k \in 1..Len(parts[1]) : parts[1][k] = <<"a", "c", "c", "e", "p", "t", ":">>
  /\ Len(parts[2]) = Len(parts[1]) + 1

(***************************************************************************)
(* C8.  Client address precedence.                                         *)
(***************************************************************************)
\* The first comma-separated entry of the X-Forwarded-For value.
FirstForwarded(q) ==
  LET xff == HeaderValues(q, XForwardedFor)
  IN  IF xff = <<>> THEN <<>>
      ELSE SubSeq(xff[1], 1,
                  IF Contains(xff[1], ",") THEN IndexByte(xff[1], ",") - 1 ELSE Len(xff[1]))

\* An address without its port suffix: the text before the last colon.
StripPort(addr) ==
  IF Contains(addr, ":") THEN SubSeq(addr, 1, LastIndexByte(addr, ":") - 1) ELSE addr

\* The client address as the claim resolves it.
ClaimedAddress(q) ==
  IF FirstForwarded(q) # <<>> THEN TrimSpace(FirstForwarded(q))
  ELSE IF HeaderValues(q, XRealIP) # <<>> THEN TrimSpace(HeaderValues(q, XRealIP)[1])
  ELSE StripPort(q.RemoteAddr)

\* C8: the IPAddress of every invocation is the trimmed first entry of
\* X-Forwarded-For when that entry is not empty, otherwise the trimmed
\* X-Real-IP when present, otherwise the peer address without its port.
C8_AddressPrecedence ==
  \A i \in Invocations : Extracted(i) => data[i].IPAddress = ClaimedAddress(r[i])

(***************************************************************************)
(* C9.  Scenario C.                                                        *)
(***************************************************************************)
\* Two requests that both carry X-Forwarded-For, with different values,
\* and agree on everything else.
DifferInForwardedOnly(q1, q2) ==
  /\ HeaderValues(q1, XForwardedFor) # <<>>
  /\ HeaderValues(q2, XForwardedFor) # <<>>
  /\ HeaderValues(q1, XForwardedFor) # HeaderValues(q2, XForwardedFor)
  /\ SameExceptHeaders(q1, q2, {XForwardedFor})

\* C9 as claimed: two invocations whose requests differ in the value of
\* X-Forwarded-For alone have different ip: parts and different strings.
C9_AnyForwardedChange ==
  \A i, j \in Invocations :
    (Serialized(i) /\ Serialized(j) /\ DifferInForwardedOnly(r[i], r[j]))
      => /\ parts[i][1] # parts[j][1]
         /\ fingerprint[i] # fingerprint[j]

\* C9 as amended: they do whenever the trimmed first comma-separated
\* entries of the two values differ.
C9_ForwardedFirstEntry ==
  \A i, j \in Invocations :
    (Serialized(i) /\ Serialized(j) /\ DifferInForwardedOnly(r[i], r[j])
       /\ TrimSpace(FirstForwarded(r[i])) # TrimSpace(FirstForwarded(r[j])))
      => /\ parts[i][1] # parts[j][1]
         /\ fingerprint[i] # fingerprint[j]
         /\ (Done(i) /\ Done(j)) => hash[i] # hash[j]

\* Two finished invocations behind different first proxies.
C9_Witness ==
  /\ Done(1) /\ Done(2)
  /\ DifferInForwardedOnly(r[1], r[2])
  /\ TrimSpace(FirstForwarded(r[1])) # <<>>
  /\ TrimSpace(FirstForwarded(r[2])) # <<>>
  /\ TrimSpace(FirstForwarded(r[1])) # TrimSpace(FirstForwarded(r[2]))
  /\ parts[1][1] # parts[2][1]
  /\ hash[1] # hash[2]

(***************************************************************************)
(* C10.  The header map.                                                   *)
(***************************************************************************)
\* The request header names stored under a key of the map.
NamesUnder(q, key) == {name \in DOMAIN q.Header : ToLower(name) = key}

\* C10 as claimed: every key is lower case and stands for one header of
\* the request, and its value is the last value received under that name.
C10_LastValueWins ==
  \A i \in Invocations :
    Extracted(i) =>
      \A key \in DOMAIN data[i].Headers :
        /\ key = ToLower(key)
        /\ Cardinality(NamesUnder(r[i], key)) = 1
        /\ \A name \in NamesUnder(r[i], key) :
             data[i].Headers[key] = r[i].Header[name][Len(r[i].Header[name])]

\* C10 as amended: every key is lower case and stands for one header of
\* the request, and its value is the first value received under that name,
\* never several values put together.
C10_FirstValueWins ==
  \A i \in Invocations :
    Extracted(i) =>
      \A key \in DOMAIN data[i].Headers :
        /\ key = ToLower(key)
        /\ Cardinality(NamesUnder(r[i], key)) = 1
        /\ \A name \in NamesUnder(r[i], key) :
             data[i].Headers[key] = r[i].Header[name][1]

\* A request with two different Connection values, the first of them
\* stored.
C10_Witness ==
  \E i \in Invocations :
    /\ Extracted(i)
    /\ Len(HeaderValues(r[i], ConnectionName)) = 2
    /\ r[i].Header[ConnectionName][1] # r[i].Header[ConnectionName][2]
    /\ data[i].Headers[<<"c", "o", "n", "n", "e", "c", "t", "i", "o", "n">>] = r[i].Header[ConnectionName][1]


(***************************************************************************)
(* C11.  Allow-list extraction.                                            *)
(***************************************************************************)
HostName == <<"H", "o", "s", "t">>

\* The non-empty values a request carried under a header name when the
\* server received it.  The server keeps the value of the Host line in
\* r.Host and not in r.Header; every other line is in r.Header.
Carried(q, name) ==
  IF name = HostName THEN {q.Host} \ {<<>>}
  ELSE {HeaderValues(q, name)[n] : n \in 1..Len(HeaderValues(q, name))} \ {<<>>}

\* The parts of invocation i that begin with "key:".
TailPartsOf(i, key) ==
  {p \in 1..Len(HeaderTail(i)) : HasPrefix(HeaderTail(i)[p], key \o <<":">>)}

\* C11: for every name on the allow-list, Host and Authorization included,
\* a request that carried a non-empty value under it has an entry with that
\* value under the lowercase name, and a "name:value" part once serialized
\* unless the name is a primary one; a request that carried none has no
\* entry and no part for it.
C11_AllowListExtraction ==
  \A i \in Invocations :
    Extracted(i) =>
      \A k \in 1..Len(fingerprintHeaderKeys) :
        LET name == fingerprintHeaderKeys[k].canonical
            key == fingerprintHeaderKeys[k].lower
        IN  IF Carried(r[i], name) # {}
              THEN /\ key \in DOMAIN data[i].Headers
                   /\ data[i].Headers[key] \in Carried(r[i], name)
                   /\ (Serialized(i) /\ key \notin PrimaryKeys) =>
                        \E p \in TailPartsOf(i, key) :
                          HeaderTail(i)[p] = key \o <<":">> \o data[i].Headers[key]
              ELSE /\ key \notin DOMAIN data[i].Headers
                   /\ Serialized(i) => TailPartsOf(i, key) = {}

(***************************************************************************)
(* C12.  TLS version mapping.                                              *)
(***************************************************************************)
\* The label the claim gives a negotiated version.
ClaimedTlsLabel(version) ==
  IF version = VersionTLS10 THEN <<"T", "L", "S", "1", ".", "0">>
  ELSE IF version = VersionTLS11 THEN <<"T", "L", "S", "1", ".", "1">>
  ELSE IF version = VersionTLS12 THEN <<"T", "L", "S", "1", ".", "2">>
  ELSE IF version = VersionTLS13 THEN <<"T", "L", "S", "1", ".", "3">>
  ELSE <<"u", "n", "k", "n", "o", "w", "n">>

\* The positions of the parts of invocation i that begin with a label.
PartsLabelled(i, label) ==
  {p \in 1..Len(parts[i]) : HasPrefix(parts[i][p], label)}

\* C12: over an encrypted transport TLSVersion is the label of the
\* negotiated version, unknown for a version outside the four, and the
\* string has exactly one tls: part, which carries it; without transport
\* security TLSVersion is empty and the string has no tls: part.
C12_TlsMapping ==
  \A i \in Invocations :
    Extracted(i) =>
      IF r[i].TLS # NoTLS
        THEN /\ data[i].TLSVersion = ClaimedTlsLabel(r[i].TLS[1])
             /\ Serialized(i) =>
                  /\ PartsLabelled(i, <<"t", "l", "s", ":">>) = {4}
                  /\ parts[i][4] = <<"t", "l", "s", ":">> \o ClaimedTlsLabel(r[i].TLS[1])
        ELSE /\ data[i].TLSVersion = <<>>
             /\ Serialized(i) => PartsLabelled(i, <<"t", "l", "s", ":">>) = {}

\* A version outside the four serialized as tls:unknown beside a request
\* without transport security serialized without a tls: part.
C12_Witness ==
  /\ Serialized(1) /\ Serialized(2)
  /\ r[1].TLS # NoTLS
  /\ r[1].TLS[1] \in UnmappedVersions
  /\ parts[1][4] = <<"t", "l", "s", ":", "u", "n", "k", "n", "o", "w", "n">>
  /\ r[2].TLS = NoTLS
  /\ PartsLabelled(2, <<"t", "l", "s", ":">>) = {}

(***************************************************************************)
(* C13.  Port extraction.                                                  *)
(***************************************************************************)
\* A bracketed IPv6 literal without a port, and a host ending in a colon.
BracketedWithoutPort(host) ==
  host # <<>> /\ host[1] = "[" /\ host[Len(host)] = "]"

TrailingColon(host) == host # <<>> /\ host[Len(host)] = ":"

\* The text after the last colon of a host.
AfterLastColon(host) == SubSeq(host, LastIndexByte(host, ":") + 1, Len(host))

\* C13: the string has a port: part only when the host of the request
\* contains a colon; the part then carries the text after the last colon
\* of the host, which is not empty.  A host without a colon, a bracketed
\* IPv6 literal without a port and a host ending in a colon give no port:
\* part; every other host of the model gives exactly one.
C13_PortPart ==
  \A i \in Invocations :
    Serialized(i) =>
      LET host == r[i].Host
          ports == PartsLabelled(i, <<"p", "o", "r", "t", ":">>)
      IN  /\ ports # {} => Contains(host, ":")
          /\ \A p \in ports :
               /\ parts[i][p] = <<"p", "o", "r", "t", ":">> \o AfterLastColon(host)
               /\ parts[i][p] # <<"p", "o", "r", "t", ":">>
               /\ data[i].Port = AfterLastColon(host)
          /\ IF ~Contains(host, ":") \/ BracketedWithoutPort(host) \/ TrailingColon(host)
               THEN ports = {} /\ data[i].Port = <<>>
               ELSE Cardinality(ports) = 1

\* A bracketed literal without a port serialized without a port: part
\* beside the same literal with port 8 serialized with port:8.
C13_Witness ==
  /\ Serialized(1) /\ Serialized(2)
  /\ r[1].Host = <<"[", ":", ":", "1", "]">>
  /\ PartsLabelled(1, <<"p", "o", "r", "t", ":">>) = {}
  /\ r[2].Host = <<"[", ":", ":", "1", "]", ":", "8">>
  /\ parts[2][4] = <<"p", "o", "r", "t", ":", "8">>

(***************************************************************************)
(* C14.  Totality.                                                         *)
(***************************************************************************)
\* C14: whatever FingerprintData generateFingerprint is given, by the
\* handler or directly, each of its steps is possible as soon as the one
\* before is over, and an invocation that has finished has a digest, which
\* is the one it replied with status 200.
C14_Totality ==
  \A i \in Invocations :
    /\ pc[i] = "extracted" => ENABLED Collect(i)
    /\ pc[i] = "collected" => ENABLED Serialize(i)
    /\ pc[i] = "serialized" => ENABLED Hash(i)
    /\ Done(i) =>
         /\ hash[i] = Sha256Hex(fingerprint[i])
         /\ response[i] = [status |-> 200, fingerprint |-> hash[i]]

\* Two finished calls: one on all-empty strings and no extra header, one
\* on strings, keys and values made of "|" and ":".
C14_Witness ==
  /\ Done(1) /\ Done(2)
  /\ \A f \in ScalarFields : data[1][f] = <<>>
  /\ data[1].Headers = EmptyMap
  /\ response[1].status = 200
  /\ \A f \in ScalarFields : data[2][f] = <<"|", ":">>
  /\ <<"a", "|", "b">> \in DOMAIN data[2].Headers
  /\ response[2].status = 200

(***************************************************************************)
(* C15.  Concurrency independence.                                         *)
(***************************************************************************)
\* The digest of a request handled alone: the extractors, the loop over
\* Headers, the sort, the join and the hash, one after the other.
HandledAlone(q) ==
  LET d == FingerprintDataOf(q)
      keys == CHOOSE k \in CollectedHeaderKeys(d.Headers) : TRUE
  IN  Sha256Hex(Join(FixedParts(d) \o HeaderParts(d, SortStrings(keys)), <<"|">>))

\* A step leaves everything invocation j owns as it was.
Untouched(j) ==
  /\ pc'[j] = pc[j]
  /\ r'[j] = r[j]
  /\ data'[j] = data[j]
  /\ rangeOrder'[j] = rangeOrder[j]
  /\ headerKeys'[j] = headerKeys[j]
  /\ parts'[j] = parts[j]
  /\ fingerprint'[j] = fingerprint[j]
  /\ hash'[j] = hash[j]
  /\ response'[j] = response[j]

\* C15: in every interleaving of the steps of the invocations, an
\* invocation that has finished has the digest its request gets when
\* handled alone, and every step changes the state of one invocation only:
\* the request, FingerprintData, keys, parts, string, digest and reply of
\* every other invocation stay as they were.
C15_Independence ==
  /\ [](\A i \in Invocations : Done(i) => hash[i] = HandledAlone(r[i]))
  /\ [][\E i \in Invocations : \A j \in Invocations \ {i} : Untouched(j)]_vars

\* One invocation has finished with the digest of its request handled
\* alone while another, on a request with other extra headers, is between
\* its loop over Headers and its sort.
C15_Witness ==
  /\ Done(1)
  /\ pc[2] = "collected"
  /\ r[1] # r[2]
  /\ ExtraKeys(data[1]) # ExtraKeys(data[2])
  /\ headerKeys[2] # <<>>
  /\ hash[1] = HandledAlone(r[1])

(***************************************************************************)
(* C16.  The primary header names and the Headers map.                     *)
(***************************************************************************)
\* The field of FingerprintData that holds a primary header.
PrimaryField(key) ==
  IF key = <<"u", "s", "e", "r", "-", "a", "g", "e", "n", "t">> THEN "UserAgent"
  ELSE IF key = <<"a", "c", "c", "e", "p", "t">> THEN "Accept"
  ELSE IF key = <<"a", "c", "c", "e", "p", "t", "-", "l", "a", "n", "g", "u", "a", "g", "e">> THEN "AcceptLang"
  ELSE "AcceptEnc"

Collected(i) == pc[i] \in {"collected", "serialized", "done"}

\* C16 as claimed: the Headers of every invocation has none of the four
\* primary header names as a key.
C16_NoPrimaryKeys ==
  \A i \in Invocations :
    Extracted(i) => (DOMAIN data[i].Headers) \cap PrimaryKeys = {}

\* C16 as amended: Headers has a primary header name as a key exactly
\* when the request carried a non-empty value for that header, with the
\* value of the primary field; generateFingerprint leaves those keys out
\* of headerKeys, so the string has one part per primary header and none
\* for it in the sorted tail.
C16_PrimaryKeysFiltered ==
  \A i \in Invocations :
    Extracted(i) =>
      /\ \A key \in PrimaryKeys :
           /\ key \in DOMAIN data[i].Headers <=> data[i][PrimaryField(key)] # <<>>
           /\ key \in DOMAIN data[i].Headers =>
                data[i].Headers[key] = data[i][PrimaryField(key)]
      /\ Collected(i) =>
           {headerKeys[i][n] : n \in 1..Len(headerKeys[i])} = ExtraKeys(data[i])
      /\ Serialized(i) =>
           /\ Len(HeaderTail(i)) = Cardinality(ExtraKeys(data[i]))
           /\ \A key \in PrimaryKeys : TailPartsOf(i, key) = {}
           /\ Cardinality(PartsLabelled(i, <<"u", "a", ":">>)) = 1
           /\ Cardinality(PartsLabelled(i, <<"a", "c", "c", "e", "p", "t", ":">>)) = 1
           /\ Cardinality(PartsLabelled(i, <<"a", "c", "c", "e", "p", "t", "-", "l", "a", "n", "g", ":">>)) = 1
           /\ Cardinality(PartsLabelled(i, <<"a", "c", "c", "e", "p", "t", "-", "e", "n", "c", ":">>)) = 1

\* A serialized invocation whose Headers holds user-agent and accept
\* beside connection, and whose sorted tail is the connection part alone.
C16_Witness ==
  \E i \in Invocations :
    /\ Serialized(i)
    /\ DOMAIN data[i].Headers = {<<"u", "s", "e", "r", "-", "a", "g", "e", "n", "t">>, <<"a", "c", "c", "e", "p", "t">>, <<"c", "o", "n", "n", "e", "c", "t", "i", "o", "n">>}
    /\ headerKeys[i] = <<<<"c", "o", "n", "n", "e", "c", "t", "i", "o", "n">>>>
    /\ Len(HeaderTail(i)) = 1
    /\ PartsLabelled(i, <<"u", "a", ":">>) = {4}

(***************************************************************************)
(* C17.  An X-Forwarded-For value whose first entry is empty.              *)
(***************************************************************************)
\* The address the claim resolves without X-Forwarded-For.
WithoutForwarded(q) ==
  IF HeaderValues(q, XRealIP) # <<>> THEN TrimSpace(HeaderValues(q, XRealIP)[1])
  ELSE StripPort(q.RemoteAddr)

\* C17: when the request carries X-Forwarded-For and the first entry of
\* its value is empty once trimmed, IPAddress is the trimmed X-Real-IP if
\* present and otherwise the peer address without its port; IPAddress is
\* empty only when that address is empty too.
C17_EmptyEntryFallsThrough ==
  \A i \in Invocations :
    Extracted(i) =>
      /\ (HeaderValues(r[i], XForwardedFor) # <<>>
            /\ TrimSpace(FirstForwarded(r[i])) = <<>>)
           => data[i].IPAddress = WithoutForwarded(r[i])
      /\ data[i].IPAddress = <<>> => WithoutForwarded(r[i]) = <<>>

(***************************************************************************)
(* C18.  The fields generateFingerprint does not read.                     *)
(***************************************************************************)
\* Two requests that agree on everything but X-Real-IP and the peer.
SameExceptRealIPAndPeer(q1, q2) ==
  /\ q1.Method = q2.Method
  /\ q1.Proto = q2.Proto
  /\ q1.Host = q2.Host
  /\ q1.TLS = q2.TLS
  /\ \A name \in ((DOMAIN q1.Header) \cup (DOMAIN q2.Header)) \ {XRealIP} :
       HeaderValues(q1, name) = HeaderValues(q2, name)

\* C18: two invocations whose FingerprintData agree on IPAddress, Method,
\* Protocol, TLSVersion, Port, the primary headers and the extra headers
\* build the same parts, string and digest, whatever RemoteAddr,
\* XForwardedFor and XRealIP hold; so do two invocations whose requests
\* both carry the same X-Forwarded-For and agree on everything but
\* X-Real-IP and the peer address.
C18_UnreadFields ==
  \A i, j \in Invocations :
    (Serialized(i) /\ Serialized(j)
       /\ \/ DifferingAttributes(data[i], data[j]) = 0
          \/ /\ HeaderValues(r[i], XForwardedFor) # <<>>
             /\ SameExceptRealIPAndPeer(r[i], r[j]))
      => /\ parts[i] = parts[j]
         /\ fingerprint[i] = fingerprint[j]
         /\ (Done(i) /\ Done(j)) => hash[i] = hash[j]

\* Two finished invocations behind the same first proxy, with different
\* X-Real-IP and peers, hence different RemoteAddr and XRealIP fields, and
\* the same digest.
C18_Witness ==
  /\ Done(1) /\ Done(2)
  /\ HeaderValues(r[1], XForwardedFor) # <<>>
  /\ SameExceptRealIPAndPeer(r[1], r[2])
  /\ data[1].RemoteAddr # data[2].RemoteAddr
  /\ data[1].XRealIP # data[2].XRealIP
  /\ data[1].XForwardedFor = data[2].XForwardedFor
  /\ hash[1] = hash[2]
=============================================================================
